---- MODULE Spec2Model ----
(***************************************************************************)
(* Model of the MongoDB storage adapter for go-oauth2: ClientStore         *)
(* (client_store.go) and TokenStore (token_store.go).                      *)
(*                                                                         *)
(* A collection is a function from the stored _id values to the rest of    *)
(* the document.  Every database call of the adapter is handed the context *)
(* made by context.WithTimeout(context.Background(), ...) inside the       *)
(* UseSession callback, not the mongo.SessionContext, so the driver runs   *)
(* it under an implicit session: the call takes effect in the collection   *)
(* at once and the transaction started on the explicit session stays in    *)
(* its "starting" state until it is committed or aborted locally.          *)
(***************************************************************************)
EXTENDS Integers, Sequences, FiniteSets, TLC

VARIABLES
    clients,    \* ClientStore: collection oauth2_clients
    clast,      \* ClientStore: the call that returned last, with its results
    cstored,    \* history: id -> the client info whose Set inserted the stored record
    basic,      \* TokenStore: collection oauth2_basic
    access,     \* TokenStore: collection oauth2_access
    refresh,    \* TokenStore: collection oauth2_refresh
    oids,       \* number of ObjectIDs generated so far
    cr,         \* TokenStore: the access/refresh Creates in flight
    tlast,      \* TokenStore: the call that returned in the last step, with its results
    lk,         \* TokenStore: the GetByAccess/GetByRefresh calls in flight, numbered
    grants      \* history: the grants handed to Create (by generated key, or by code)
                \* that no Remove touched

vars == <<clients, clast, cstored, basic, access, refresh, oids, cr, tlast, lk, grants>>
cvars == <<clients, clast, cstored>>
tvars == <<basic, access, refresh, oids, cr, tlast, lk, grants>>

-----------------------------------------------------------------------------
(* Bounds of the model. *)

\* ObjectIDs the token store may generate (number of access/refresh Creates).
MaxCreates == 2

\* access/refresh Creates in the specifications that run them among the
\* other calls or over every timing (CodeSpec, LookupSpec, ExpirySpec).
MaxCreatesAmong == 1

\* GetByAccess and GetByRefresh calls in flight at a time.
MaxLookups == 1

-----------------------------------------------------------------------------
(* Errors. *)

NoErr == "nil"
ErrNoDocuments == "NotFound"          \* mongo.ErrNoDocuments of FindOne(...).Decode
DuplicateKey == "DuplicateKey"        \* write error of InsertOne on a present _id
StorageError == "StorageError"        \* any other fault of a database call
SessionError == "SessionError"        \* client.UseSession could not start a session

\* What the environment does to one handler call: nothing, fail StartSession,
\* or fail the database call of the body.
Faults == {"none", "session", "op"}

-----------------------------------------------------------------------------
(* The driver: collections.  A call that fails leaves the collection as it *)
(* was.                                                                    *)

Without(col, id) == [k \in DOMAIN col \ {id} |-> col[k]]

InsertOneErr(col, id, fault) ==
    IF fault = "op" THEN StorageError
    ELSE IF id \in DOMAIN col THEN DuplicateKey
    ELSE NoErr

InsertOne(col, id, doc, fault) ==
    IF InsertOneErr(col, id, fault) = NoErr THEN (id :> doc) @@ col ELSE col

FindOneErr(col, id, fault) ==
    IF fault = "op" THEN StorageError
    ELSE IF id \notin DOMAIN col THEN ErrNoDocuments
    ELSE NoErr

\* The mutant of DeleteOneErr that reports a delete that matched no document.
DeleteOneErrUnmatched(col, id, fault) ==
    IF fault = "op" THEN StorageError
    ELSE IF id \notin DOMAIN col THEN ErrNoDocuments
    ELSE NoErr

DeleteOneErr(col, id, fault) ==
    IF fault = "op" THEN StorageError ELSE NoErr

DeleteOne(col, id, fault) ==
    IF DeleteOneErr(col, id, fault) = NoErr THEN Without(col, id) ELSE col

-----------------------------------------------------------------------------
(* The driver: the transaction of an explicit session.  No database call   *)
(* of the adapter carries the session, so the transaction is still         *)
(* "starting" when it ends, and ending it sends nothing to the server.     *)

StartTransaction == "starting"

AbortTransaction(txn) ==
    IF txn = "starting" THEN [txn |-> "aborted", err |-> NoErr]
    ELSE [txn |-> txn, err |-> StorageError]

CommitTransaction(txn) ==
    IF txn = "starting" THEN [txn |-> "committed", err |-> NoErr]
    ELSE [txn |-> txn, err |-> StorageError]

\* The mutant of SessionBody that commits whatever fn returned.
SessionBodyCommits(bodyErr) ==
    CommitTransaction(StartTransaction)

\* The callback given to UseSession, after fn returned bodyErr:
\*   if err != nil { return session.AbortTransaction(ctx) }
\*   return session.CommitTransaction(ctx)
SessionBody(bodyErr) ==
    IF bodyErr # NoErr
        THEN AbortTransaction(StartTransaction)
        ELSE CommitTransaction(StartTransaction)

\* The calls a handler makes on the session and the database, in the order it
\* makes them: session.StartTransaction(), the database call(s) of fn, then
\* session.AbortTransaction or session.CommitTransaction.
TxnStarts == "StartTransaction"
OpEvent(bodyErr) == IF bodyErr = NoErr THEN "op" ELSE "op failed"
EndEvent(txn) ==
    IF txn = "committed" THEN "CommitTransaction"
    ELSE IF txn = "aborted" THEN "AbortTransaction"
    ELSE "left open"

\* colHandler / dbHandler: UseSession returns the StartSession error without
\* running the callback, else what the callback returns.
Handler(fault, bodyErr) ==
    IF fault = "session"
        THEN [txn |-> "none", err |-> SessionError, ran |-> FALSE, log |-> << >>]
        ELSE [txn |-> SessionBody(bodyErr).txn, err |-> SessionBody(bodyErr).err,
              ran |-> TRUE,
              log |-> <<TxnStarts, OpEvent(bodyErr), EndEvent(SessionBody(bodyErr).txn)>>]

\* The fault as the body's database call sees it (no call when no session).
OpFault(fault) == IF fault = "op" THEN "op" ELSE "none"

-----------------------------------------------------------------------------
(* ClientStore. *)

ClientIDs == {"c1", "c2"}
Secrets == {"s1", "s2"}
Domains == {"d1", "d2"}
UserIDs == {"u1", "u2"}

\* oauth2.ClientInfo values handed to Set, and models.Client returned by GetByID.
ClientInfos == [ID : ClientIDs, Secret : Secrets, Domain : Domains, UserID : UserIDs]

NilClient == [ID |-> "<nil>", Secret |-> "", Domain |-> "", UserID |-> ""]

\* The stored document of struct client, without its _id.
ClientEntity(info) ==
    [secret |-> info.Secret, domain |-> info.Domain, userid |-> info.UserID]

\* The mutant of DecodeClient that swaps two fields.
DecodeClientSwapped(id, doc) ==
    [ID |-> id, Secret |-> doc.secret, Domain |-> doc.userid, UserID |-> doc.domain]

\* models.Client built from the decoded entity.
DecodeClient(id, doc) ==
    [ID |-> id, Secret |-> doc.secret, Domain |-> doc.domain, UserID |-> doc.userid]

CResult(op, id, h, bodyErr, val) ==
    [op |-> op, id |-> id, err |-> h.err, bodyErr |-> bodyErr, txn |-> h.txn,
     val |-> val, log |-> h.log]

Set(info, fault) ==
    LET bodyErr == IF fault = "session" THEN NoErr
                   ELSE InsertOneErr(clients, info.ID, OpFault(fault))
        h == Handler(fault, bodyErr)
        inserted == h.ran /\ bodyErr = NoErr
    IN  /\ clients' = IF h.ran
                        THEN InsertOne(clients, info.ID, ClientEntity(info), OpFault(fault))
                        ELSE clients
        /\ clast' = CResult("Set", info.ID, h, bodyErr, NilClient)
        /\ cstored' = IF inserted THEN (info.ID :> info) @@ cstored ELSE cstored
        /\ UNCHANGED tvars

GetByID(id, fault) ==
    LET bodyErr == IF fault = "session" THEN NoErr
                   ELSE FindOneErr(clients, id, OpFault(fault))
        h == Handler(fault, bodyErr)
        info == IF h.ran /\ bodyErr = NoErr
                  THEN DecodeClient(id, clients[id])
                  ELSE NilClient
    IN  /\ clast' = CResult("GetByID", id, h, bodyErr, info)
        /\ UNCHANGED <<clients, cstored>>
        /\ UNCHANGED tvars

RemoveByID(id, fault) ==
    LET bodyErr == IF fault = "session" THEN NoErr
                   ELSE DeleteOneErr(clients, id, OpFault(fault))
        h == Handler(fault, bodyErr)
        deleted == h.ran /\ bodyErr = NoErr
    IN  /\ clients' = IF h.ran THEN DeleteOne(clients, id, OpFault(fault)) ELSE clients
        /\ clast' = CResult("RemoveByID", id, h, bodyErr, NilClient)
        /\ cstored' = IF deleted THEN Without(cstored, id) ELSE cstored
        /\ UNCHANGED tvars

NoCall == [op |-> "none", id |-> "", err |-> NoErr, bodyErr |-> NoErr, txn |-> "none",
           val |-> NilClient, log |-> << >>]

Empty == [k \in {} |-> NoCall]

ClientInit ==
    /\ clients = Empty
    /\ clast = NoCall
    /\ cstored = Empty

ClientNext ==
    \/ \E info \in ClientInfos, f \in Faults : Set(info, f)
    \/ \E id \in ClientIDs, f \in Faults : GetByID(id, f)
    \/ \E id \in ClientIDs, f \in Faults : RemoveByID(id, f)

-----------------------------------------------------------------------------
(* TokenStore: values. *)

BasicCName == "oauth2_basic"
AccessCName == "oauth2_access"
RefreshCName == "oauth2_refresh"

AccessTokens == {"a1"}
RefreshTokens == {"", "r1"}
\* Authorization codes are strings of the caller: one that no generated key
\* equals, and one that is the hex of the first generated ObjectID.
Codes == {"k1", "oid1"}

\* Creation instants and lifetimes, in seconds, of an access/refresh grant:
\* <<accessCreateAt, accessExpiresIn, refreshCreateAt, refreshExpiresIn>>.
Timings ==
    { <<120, 3600, 120, 7200>>,     \* access expires first, same second of the minute
      <<120, 3600, 120, 20>>,       \* access expires last, at a smaller second
      <<165, 20, 120, 7200>>,       \* access expires first, at a greater second
      <<165, 3600, 120, 20>>,       \* access expires last, at a greater second
      <<165, 3600, 165, 7200>> }    \* access expires first, same second, another instant

\* models.Token of an access/refresh grant (empty code).
Grant(a, r, t) ==
    [Code |-> "", CodeCreateAt |-> 0, CodeExpiresIn |-> 0,
     Access |-> a, AccessCreateAt |-> t[1], AccessExpiresIn |-> t[2],
     Refresh |-> r, RefreshCreateAt |-> t[3], RefreshExpiresIn |-> t[4]]

\* The grants handed to Create: under Spec every token with one timing, under
\* ExpirySpec every timing with a refresh token and two timings without.
GrantInfos ==
    { Grant(a, r, <<120, 3600, 120, 7200>>) : a \in AccessTokens, r \in RefreshTokens }

ExpiryInfos ==
    { Grant("a1", "r1", t) : t \in Timings }
    \cup { Grant("a1", "", t) : t \in {<<120, 3600, 120, 7200>>, <<165, 20, 120, 7200>>} }

\* models.Token of a code grant: the code alone, or the code together with an
\* access and a refresh token.
CodeGrant(code, a, r, t) ==
    [Code |-> code, CodeCreateAt |-> 120, CodeExpiresIn |-> 20,
     Access |-> a, AccessCreateAt |-> t[1], AccessExpiresIn |-> t[2],
     Refresh |-> r, RefreshCreateAt |-> t[3], RefreshExpiresIn |-> t[4]]

CodeInfos ==
    { CodeGrant(code, "", "", <<0, 0, 0, 0>>) : code \in Codes }
    \cup { CodeGrant("k1", "a1", "r1", <<120, 3600, 120, 7200>>) }

TokenInfos == GrantInfos \cup CodeInfos

\* var tm models.Token: the zero value getData fills in.
ZeroToken ==
    [Code |-> "", CodeCreateAt |-> 0, CodeExpiresIn |-> 0,
     Access |-> "", AccessCreateAt |-> 0, AccessExpiresIn |-> 0,
     Refresh |-> "", RefreshCreateAt |-> 0, RefreshExpiresIn |-> 0]

\* The nil oauth2.TokenInfo.
NilToken == [ZeroToken EXCEPT !.Code = "<nil>"]

\* json.Marshal(info): the fields in the order models.Token declares them
\* (a models.Token always marshals; an instant is kept as an instant).
Marshal(info) ==
    <<info.Code, info.CodeCreateAt, info.CodeExpiresIn,
      info.Access, info.AccessCreateAt, info.AccessExpiresIn,
      info.Refresh, info.RefreshCreateAt, info.RefreshExpiresIn>>

\* The mutant of Unmarshal that leaves the lifetime of the code at its zero value.
UnmarshalDropsCodeExpiry(jv) ==
    [Code |-> jv[1], CodeCreateAt |-> jv[2], CodeExpiresIn |-> 0,
     Access |-> jv[4], AccessCreateAt |-> jv[5], AccessExpiresIn |-> jv[6],
     Refresh |-> jv[7], RefreshCreateAt |-> jv[8], RefreshExpiresIn |-> jv[9]]

\* json.Unmarshal(bd.Data, &tm)
Unmarshal(jv) ==
    [Code |-> jv[1], CodeCreateAt |-> jv[2], CodeExpiresIn |-> jv[3],
     Access |-> jv[4], AccessCreateAt |-> jv[5], AccessExpiresIn |-> jv[6],
     Refresh |-> jv[7], RefreshCreateAt |-> jv[8], RefreshExpiresIn |-> jv[9]]

\* time.Time.Add and time.Time.Second (the second within the minute).
Add(t, d) == t + d
Second(t) == t % 60

\* primitive.NewObjectID().Hex() of the n-th generated ObjectID.
ObjectIDHex(n) == <<"oid1", "oid2", "oid3", "oid4", "oid5">>[n]

-----------------------------------------------------------------------------
(* TokenStore: Create. *)

\* aexp := info.GetAccessCreateAt().Add(info.GetAccessExpiresIn())
\* rexp := aexp
\* if refresh != "" { rexp = ...; if aexp.Second() > rexp.Second() { aexp = rexp } }
\* The mutant of RefreshExpiry that never leaves rexp := aexp.
RefreshExpiryOfAccess(info) ==
    Add(info.AccessCreateAt, info.AccessExpiresIn)

RefreshExpiry(info) ==
    IF info.Refresh # ""
        THEN Add(info.RefreshCreateAt, info.RefreshExpiresIn)
        ELSE Add(info.AccessCreateAt, info.AccessExpiresIn)

AccessExpiry(info) ==
    LET aexp == Add(info.AccessCreateAt, info.AccessExpiresIn)
        rexp == RefreshExpiry(info)
    IN  IF info.Refresh # "" /\ Second(aexp) > Second(rexp) THEN rexp ELSE aexp

\* The mutant of PayloadKeys that has a refresh payload for every grant.
PayloadKeysAll(info) ==
    {BasicCName, AccessCName, RefreshCName}

\* The keys of the payloads map.
PayloadKeys(info) ==
    {BasicCName, AccessCName} \cup (IF info.Refresh # "" THEN {RefreshCName} ELSE {})

\* The _id and the document of payloads[key].
PayloadID(key, info, id) ==
    IF key = BasicCName THEN id
    ELSE IF key = AccessCName THEN info.Access
    ELSE info.Refresh

\* The mutant of PayloadDoc whose index rows carry the token, not the generated key.
PayloadDocOwnKey(key, info, id) ==
    IF key = BasicCName THEN [Data |-> Marshal(info), ExpiredAt |-> RefreshExpiry(info)]
    ELSE IF key = AccessCName
        THEN [BasicID |-> info.Access, ExpiredAt |-> AccessExpiry(info)]
    ELSE [BasicID |-> info.Refresh, ExpiredAt |-> RefreshExpiry(info)]

PayloadDoc(key, info, id) ==
    IF key = BasicCName THEN [Data |-> Marshal(info), ExpiredAt |-> RefreshExpiry(info)]
    ELSE IF key = AccessCName THEN [BasicID |-> id, ExpiredAt |-> AccessExpiry(info)]
    ELSE [BasicID |-> id, ExpiredAt |-> RefreshExpiry(info)]

Collection(key) ==
    IF key = BasicCName THEN basic
    ELSE IF key = AccessCName THEN access
    ELSE refresh

\* No Create is in flight.
Idle == {}

\* The Create in flight that generated id.
InFlight(id) == CHOOSE c \in cr : c.id = id

NilTokenCall == "none"

\* No call has returned results its caller has yet to take.
Ready == tlast.op = NilTokenCall

\* The results of a call, with the collections as they were before the step
\* in which it returned.  id is the key Create generated or the basicID a
\* lookup read; live is filled in by the lookups.
TResult(op, arg, err, bodyErr, txn, val, id, log) ==
    [op |-> op, arg |-> arg, err |-> err, bodyErr |-> bodyErr, txn |-> txn,
     val |-> val, id |-> id, log |-> log, live |-> {},
     pre |-> [basic |-> basic, access |-> access, refresh |-> refresh]]

NoTokenCall ==
    [op |-> NilTokenCall, arg |-> "", err |-> NoErr, bodyErr |-> NoErr, txn |-> "none",
     val |-> NilToken, id |-> "", log |-> << >>, live |-> {},
     pre |-> [basic |-> Empty, access |-> Empty, refresh |-> Empty]]

\* The grants whose Create inserted every record, untouched by a Remove, that
\* token looks up in the collection named cname.
Live(cname, token) ==
    {g \in grants : /\ g.done = "ok" /\ g.info.Code = "" /\ token # ""
                    /\ PayloadID(cname, g.info, g.id) = token}

\* The grants a successful delete of _id = key in collection cname touches.
Touched(cname, key) ==
    {g \in grants : IF g.info.Code # "" THEN cname = BasicCName /\ g.id = key
                    ELSE PayloadID(cname, g.info, g.id) = key}

\* The mutant of CreateCode that goes on to index the access token of the grant.
CreateCodeIndexed(info, fault) ==
    LET bodyErr == IF fault = "session" THEN NoErr
                   ELSE InsertOneErr(basic, info.Code, OpFault(fault))
        h == Handler(fault, bodyErr)
        doc == [Data |-> Marshal(info),
                ExpiredAt |-> Add(info.CodeCreateAt, info.CodeExpiresIn)]
        row == [BasicID |-> info.Code,
                ExpiredAt |-> Add(info.AccessCreateAt, info.AccessExpiresIn)]
        stored == h.ran /\ bodyErr = NoErr
    IN  /\ Ready
        /\ info.Code # ""
        /\ basic' = IF h.ran THEN InsertOne(basic, info.Code, doc, OpFault(fault))
                     ELSE basic
        /\ access' = IF stored /\ info.Access # ""
                        THEN InsertOne(access, info.Access, row, "none") ELSE access
        /\ grants' = IF stored
                        THEN grants \cup {[id |-> info.Code, info |-> info, done |-> "ok"]}
                        ELSE grants
        /\ tlast' = TResult("Create", info.Code, h.err, bodyErr, h.txn, NilToken, "", h.log)
        /\ UNCHANGED <<refresh, oids, cr>>
        /\ UNCHANGED <<cvars, lk>>

\* Create with a code: one InsertOne into the basic collection under colHandler.
CreateCode(info, fault) ==
    LET bodyErr == IF fault = "session" THEN NoErr
                   ELSE InsertOneErr(basic, info.Code, OpFault(fault))
        h == Handler(fault, bodyErr)
        doc == [Data |-> Marshal(info),
                ExpiredAt |-> Add(info.CodeCreateAt, info.CodeExpiresIn)]
    IN  /\ Ready
        /\ info.Code # ""
        /\ basic' = IF h.ran THEN InsertOne(basic, info.Code, doc, OpFault(fault))
                     ELSE basic
        /\ grants' = IF h.ran /\ bodyErr = NoErr
                        THEN grants \cup {[id |-> info.Code, info |-> info, done |-> "ok"]}
                        ELSE grants
        /\ tlast' = TResult("Create", info.Code, h.err, bodyErr, h.txn, NilToken, "", h.log)
        /\ UNCHANGED <<access, refresh, oids, cr>>
        /\ UNCHANGED <<cvars, lk>>

\* Create without a code, up to the call of dbHandler: the expiries, the
\* ObjectID and the payloads map; UseSession starts the session.  Nothing
\* keeps a caller from calling Create while other Creates run.
CreateBegin(info, fault) ==
    LET id == ObjectIDHex(oids + 1)
        h == Handler(fault, NoErr)
    IN  /\ Ready
        /\ info.Code = ""
        /\ oids < MaxCreates
        /\ fault \in {"none", "session"}
        /\ oids' = oids + 1
        /\ IF h.ran
             THEN /\ cr' = cr \cup {[info |-> info, id |-> id,
                                      pending |-> PayloadKeys(info),
                                      log |-> <<TxnStarts>>]}
                  /\ grants' = grants \cup {[id |-> id, info |-> info, done |-> "running"]}
                  /\ UNCHANGED tlast
             ELSE /\ tlast' = TResult("Create", info.Access, h.err, NoErr, h.txn,
                                      NilToken, id, h.log)
                  /\ UNCHANGED <<cr, grants>>
        /\ UNCHANGED <<basic, access, refresh>>
        /\ UNCHANGED <<cvars, lk>>

\* One turn of the loop over the payloads map (Go ranges over a map in an
\* unspecified order): InsertOne of the payload of key.  The last turn, or a
\* failed insert, ends the transaction and returns from Create.
CreateInsert(id, key, fault) ==
    LET c == InFlight(id)
        info == c.info
        pid == PayloadID(key, info, id)
        doc == PayloadDoc(key, info, id)
        bodyErr == InsertOneErr(Collection(key), pid, fault)
        rest == c.pending \ {key}
        returns == bodyErr # NoErr \/ rest = {}
        sb == SessionBody(bodyErr)
        log == Append(c.log, OpEvent(bodyErr))
        g == CHOOSE x \in grants : x.id = id /\ x.info = info
        g2 == [g EXCEPT !.done = IF bodyErr # NoErr THEN "failed"
                                 ELSE IF rest = {} THEN "ok" ELSE "running"]
    IN  /\ Ready
        /\ \E x \in cr : x.id = id
        /\ key \in c.pending
        /\ fault \in {"none", "op"}
        /\ basic' = IF key = BasicCName THEN InsertOne(basic, pid, doc, fault) ELSE basic
        /\ access' = IF key = AccessCName THEN InsertOne(access, pid, doc, fault) ELSE access
        /\ refresh' = IF key = RefreshCName THEN InsertOne(refresh, pid, doc, fault)
                       ELSE refresh
        /\ grants' = IF \E x \in grants : x.id = id /\ x.info = info
                        THEN (grants \ {g}) \cup {g2} ELSE grants
        /\ IF returns
             THEN /\ cr' = cr \ {c}
                  /\ tlast' = TResult("Create", info.Access, sb.err, bodyErr, sb.txn,
                                      NilToken, id, Append(log, EndEvent(sb.txn)))
             ELSE /\ cr' = (cr \ {c}) \cup {[c EXCEPT !.pending = rest, !.log = log]}
                  /\ UNCHANGED tlast
        /\ UNCHANGED oids
        /\ UNCHANGED <<cvars, lk>>

-----------------------------------------------------------------------------
(* TokenStore: Remove. *)

RemoveByCode(code, fault) ==
    LET bodyErr == IF fault = "session" THEN NoErr
                   ELSE DeleteOneErr(basic, code, OpFault(fault))
        h == Handler(fault, bodyErr)
    IN  /\ Ready
        /\ basic' = IF h.ran THEN DeleteOne(basic, code, OpFault(fault)) ELSE basic
        /\ grants' = IF h.ran /\ bodyErr = NoErr
                        THEN grants \ Touched(BasicCName, code) ELSE grants
        /\ tlast' = TResult("RemoveByCode", code, h.err, bodyErr, h.txn, NilToken, "", h.log)
        /\ UNCHANGED <<access, refresh, oids, cr>>
        /\ UNCHANGED <<cvars, lk>>

\* The mutant of RemoveByAccess that also deletes the payload the row points to.
RemoveByAccessCascade(token, fault) ==
    LET bodyErr == IF fault = "session" THEN NoErr
                   ELSE DeleteOneErr(access, token, OpFault(fault))
        h == Handler(fault, bodyErr)
        deleted == h.ran /\ bodyErr = NoErr
    IN  /\ Ready
        /\ access' = IF deleted THEN Without(access, token) ELSE access
        /\ basic' = IF deleted /\ token \in DOMAIN access
                       THEN Without(basic, access[token].BasicID) ELSE basic
        /\ grants' = IF deleted THEN grants \ Touched(AccessCName, token) ELSE grants
        /\ tlast' = TResult("RemoveByAccess", token, h.err, bodyErr, h.txn, NilToken, "", h.log)
        /\ UNCHANGED <<refresh, oids, cr>>
        /\ UNCHANGED <<cvars, lk>>

RemoveByAccess(token, fault) ==
    LET bodyErr == IF fault = "session" THEN NoErr
                   ELSE DeleteOneErr(access, token, OpFault(fault))
        h == Handler(fault, bodyErr)
    IN  /\ Ready
        /\ access' = IF h.ran THEN DeleteOne(access, token, OpFault(fault)) ELSE access
        /\ grants' = IF h.ran /\ bodyErr = NoErr
                        THEN grants \ Touched(AccessCName, token) ELSE grants
        /\ tlast' = TResult("RemoveByAccess", token, h.err, bodyErr, h.txn, NilToken, "", h.log)
        /\ UNCHANGED <<basic, refresh, oids, cr>>
        /\ UNCHANGED <<cvars, lk>>

RemoveByRefresh(token, fault) ==
    LET bodyErr == IF fault = "session" THEN NoErr
                   ELSE DeleteOneErr(refresh, token, OpFault(fault))
        h == Handler(fault, bodyErr)
    IN  /\ Ready
        /\ refresh' = IF h.ran THEN DeleteOne(refresh, token, OpFault(fault)) ELSE refresh
        /\ grants' = IF h.ran /\ bodyErr = NoErr
                        THEN grants \ Touched(RefreshCName, token) ELSE grants
        /\ tlast' = TResult("RemoveByRefresh", token, h.err, bodyErr, h.txn, NilToken, "", h.log)
        /\ UNCHANGED <<basic, access, oids, cr>>
        /\ UNCHANGED <<cvars, lk>>

-----------------------------------------------------------------------------
(* TokenStore: Get. *)

\* getBasicID(cname, token), on the collection col: (basicID, err, bodyErr).
getBasicID(col, token, fault) ==
    LET bodyErr == IF fault = "session" THEN NoErr
                   ELSE FindOneErr(col, token, OpFault(fault))
        h == Handler(fault, bodyErr)
    IN  [basicID |-> IF h.ran /\ bodyErr = NoErr THEN col[token].BasicID ELSE "",
         err |-> h.err, bodyErr |-> bodyErr, txn |-> h.txn, log |-> h.log]

\* getData(basicID): (&tm, err, bodyErr).
getData(basicID, fault) ==
    LET bodyErr == IF fault = "session" THEN NoErr
                   ELSE FindOneErr(basic, basicID, OpFault(fault))
        h == Handler(fault, bodyErr)
    IN  [val |-> IF h.ran /\ bodyErr = NoErr THEN Unmarshal(basic[basicID].Data)
                 ELSE ZeroToken,
         err |-> h.err, bodyErr |-> bodyErr, txn |-> h.txn, log |-> h.log]

GetByCode(code, fault) ==
    LET d == getData(code, fault)
    IN  /\ Ready
        /\ tlast' = TResult("GetByCode", code, d.err, d.bodyErr, d.txn, d.val, "", d.log)
        /\ UNCHANGED <<basic, access, refresh, oids, cr, grants>>
        /\ UNCHANGED <<cvars, lk>>

NoLookup == Empty

\* GetByAccess and GetByRefresh up to the call of getData: getBasicID, in a
\* session and a transaction of its own, and
\*   if err != nil && basicID == "" { return nil, err }
\* Other calls may run before getData does, lookups among them.
LookupBasicID(op, cname, token, fault) ==
    LET b == getBasicID(Collection(cname), token, fault)
        live == Live(cname, token)
        free == (1..MaxLookups) \ DOMAIN lk
        n == CHOOSE x \in free : \A y \in free : x <= y
    IN  /\ Ready
        /\ free # {}
        /\ IF b.err # NoErr /\ b.basicID = ""
             THEN /\ tlast' = [TResult(op, token, b.err, b.bodyErr, b.txn, NilToken, "",
                                       b.log) EXCEPT !.live = live]
                  /\ UNCHANGED lk
             ELSE /\ lk' = (n :> [op |-> op, token |-> token, b |-> b, live |-> live])
                              @@ lk
                  /\ UNCHANGED tlast
        /\ UNCHANGED <<basic, access, refresh, oids, cr, grants>>
        /\ UNCHANGED cvars

GetByAccess(token, fault) == LookupBasicID("GetByAccess", AccessCName, token, fault)

GetByRefresh(token, fault) == LookupBasicID("GetByRefresh", RefreshCName, token, fault)

\* return ts.getData(basicID) of the GetByAccess or GetByRefresh in flight
\* numbered n.
LookupData(n, fault) ==
    LET l == lk[n]
        b == l.b
        d == getData(b.basicID, fault)
    IN  /\ Ready
        /\ n \in DOMAIN lk
        /\ tlast' = [TResult(l.op, l.token, d.err,
                             IF b.bodyErr # NoErr THEN b.bodyErr ELSE d.bodyErr,
                             d.txn, d.val, b.basicID, b.log \o d.log)
                       EXCEPT !.live = l.live]
        /\ lk' = Without(lk, n)
        /\ UNCHANGED <<basic, access, refresh, oids, cr, grants>>
        /\ UNCHANGED cvars

\* The caller takes the results of the call that returned in the last step;
\* the calls of the model are observed one return at a time.
Resume ==
    /\ ~Ready
    /\ tlast' = NoTokenCall
    /\ UNCHANGED <<basic, access, refresh, oids, cr, grants>>
    /\ UNCHANGED <<cvars, lk>>

-----------------------------------------------------------------------------
(* Specifications. *)

TokenInit ==
    /\ basic = Empty
    /\ access = Empty
    /\ refresh = Empty
    /\ oids = 0
    /\ cr = Idle
    /\ tlast = NoTokenCall
    /\ lk = NoLookup
    /\ grants = {}

Init == ClientInit /\ TokenInit

\* Strings callers look up and remove by.
LookupCodes == Codes \cup {ObjectIDHex(1)}
LookupAccess == AccessTokens
LookupRefresh == RefreshTokens \ {""}

TokenNext ==
    \/ \E info \in TokenInfos, f \in Faults : CreateCode(info, f)
    \/ \E info \in TokenInfos, f \in Faults : CreateBegin(info, f)
    \/ \E c \in cr, key \in {BasicCName, AccessCName, RefreshCName}, f \in Faults :
            CreateInsert(c.id, key, f)
    \/ \E code \in LookupCodes, f \in Faults : RemoveByCode(code, f)
    \/ \E t \in LookupAccess, f \in Faults : RemoveByAccess(t, f)
    \/ \E t \in LookupRefresh, f \in Faults : RemoveByRefresh(t, f)
    \/ \E code \in LookupCodes, f \in Faults : GetByCode(code, f)
    \/ \E t \in LookupAccess, f \in Faults : GetByAccess(t, f)
    \/ \E t \in LookupRefresh, f \in Faults : GetByRefresh(t, f)
    \/ \E n \in DOMAIN lk, f \in Faults : LookupData(n, f)
    \/ Resume

\* Every call that is one step or writes: Create, Remove and GetByCode, over
\* every code.
CodeNext ==
    \/ \E info \in TokenInfos, f \in Faults : CreateCode(info, f)
    \/ \E info \in TokenInfos, f \in Faults :
            oids < MaxCreatesAmong /\ CreateBegin(info, f)
    \/ \E c \in cr, key \in {BasicCName, AccessCName, RefreshCName}, f \in Faults :
            CreateInsert(c.id, key, f)
    \/ \E code \in LookupCodes, f \in Faults : RemoveByCode(code, f)
    \/ \E t \in LookupAccess, f \in Faults : RemoveByAccess(t, f)
    \/ \E t \in LookupRefresh, f \in Faults : RemoveByRefresh(t, f)
    \/ \E code \in LookupCodes, f \in Faults : GetByCode(code, f)
    \/ Resume

\* The code grant whose code is the hex of the first generated ObjectID.
KeyCodeInfos == { CodeGrant(ObjectIDHex(1), "", "", <<0, 0, 0, 0>>) }

\* GetByAccess and GetByRefresh among Create and Remove, the only code being
\* the one that is a generated key.
LookupNext ==
    \/ \E info \in KeyCodeInfos, f \in Faults : CreateCode(info, f)
    \/ \E info \in GrantInfos, f \in Faults :
            oids < MaxCreatesAmong /\ CreateBegin(info, f)
    \/ \E c \in cr, key \in {BasicCName, AccessCName, RefreshCName}, f \in Faults :
            CreateInsert(c.id, key, f)
    \/ \E f \in Faults : RemoveByCode(ObjectIDHex(1), f)
    \/ \E t \in LookupAccess, f \in Faults : RemoveByAccess(t, f)
    \/ \E t \in LookupRefresh, f \in Faults : RemoveByRefresh(t, f)
    \/ \E t \in LookupAccess, f \in Faults : GetByAccess(t, f)
    \/ \E t \in LookupRefresh, f \in Faults : GetByRefresh(t, f)
    \/ \E n \in DOMAIN lk, f \in Faults : LookupData(n, f)
    \/ Resume

\* One client, one code grant and one access/refresh grant, for the calls of
\* both stores together.
OneClient == { [ID |-> "c1", Secret |-> "s1", Domain |-> "d1", UserID |-> "u1"] }
OneCodeInfo == { CodeGrant("k1", "", "", <<0, 0, 0, 0>>) }
OneGrantInfo == { Grant("a1", "r1", <<120, 3600, 120, 7200>>) }

\* The caller of a ClientStore method takes its results.
ResumeClient ==
    /\ clast # NoCall
    /\ clast' = NoCall
    /\ UNCHANGED <<clients, cstored>>
    /\ UNCHANGED tvars

\* No call of either store has returned results its caller has yet to take.
BothReady == Ready /\ clast = NoCall

\* Every public method of TokenStore and of ClientStore, called by clients
\* in any order; the calls are observed one return at a time.
ProtocolNext ==
    \/ \E info \in OneCodeInfo, f \in Faults : BothReady /\ CreateCode(info, f)
    \/ \E info \in OneGrantInfo, f \in Faults :
            BothReady /\ oids < MaxCreatesAmong /\ CreateBegin(info, f)
    \/ \E c \in cr, key \in {BasicCName, AccessCName, RefreshCName}, f \in Faults :
            BothReady /\ CreateInsert(c.id, key, f)
    \/ \E f \in Faults : BothReady /\ RemoveByCode("k1", f)
    \/ \E t \in LookupAccess, f \in Faults : BothReady /\ RemoveByAccess(t, f)
    \/ \E t \in LookupRefresh, f \in Faults : BothReady /\ RemoveByRefresh(t, f)
    \/ \E f \in Faults : BothReady /\ GetByCode("k1", f)
    \/ \E t \in LookupAccess, f \in Faults : BothReady /\ GetByAccess(t, f)
    \/ \E t \in LookupRefresh, f \in Faults : BothReady /\ GetByRefresh(t, f)
    \/ \E n \in DOMAIN lk, f \in Faults : BothReady /\ LookupData(n, f)
    \/ \E info \in OneClient, f \in Faults : BothReady /\ Set(info, f)
    \/ \E f \in Faults : BothReady /\ GetByID("c1", f)
    \/ \E f \in Faults : BothReady /\ RemoveByID("c1", f)
    \/ Resume
    \/ ResumeClient

\* Creates alone, over every timing.
ExpiryNext ==
    \/ \E info \in ExpiryInfos, f \in Faults :
            oids < MaxCreatesAmong /\ CreateBegin(info, f)
    \/ \E c \in cr, key \in {BasicCName, AccessCName, RefreshCName}, f \in Faults :
            CreateInsert(c.id, key, f)
    \/ \E t \in LookupAccess, f \in Faults : RemoveByAccess(t, f)
    \/ Resume

\* Creates of access/refresh grants with one timing, and the removal that
\* lets an access token be granted again.
CreateNext ==
    \/ \E info \in GrantInfos, f \in Faults : CreateBegin(info, f)
    \/ \E c \in cr, key \in {BasicCName, AccessCName, RefreshCName}, f \in Faults :
            CreateInsert(c.id, key, f)
    \/ \E t \in LookupAccess, f \in Faults : RemoveByAccess(t, f)
    \/ Resume

\* The token store (the default specification), its single-step calls, its
\* lookups, its expiries, its Creates step by step, both stores together, and
\* the client store.
Spec == Init /\ [][TokenNext]_vars
CodeSpec == Init /\ [][CodeNext]_vars
LookupSpec == Init /\ [][LookupNext]_vars
ExpirySpec == Init /\ [][ExpiryNext]_vars
CreateSpec == Init /\ [][CreateNext]_vars
ProtocolSpec == Init /\ [][ProtocolNext]_vars
ClientSpec == Init /\ [][ClientNext]_vars

-----------------------------------------------------------------------------
(* Properties. *)

\* The index rows of the basic payload keyed id.
RowsOf(id) ==
    {<<AccessCName, k>> : k \in {x \in DOMAIN access : access[x].BasicID = id}}
    \cup {<<RefreshCName, k>> : k \in {x \in DOMAIN refresh : refresh[x].BasicID = id}}

\* C1: when a Create of an access/refresh grant returns after one of its
\* inserts failed, no record of that grant is in the basic, access or refresh
\* collection.
C1_CreateAllOrNothing ==
    (tlast.op = "Create" /\ tlast.id # "" /\ tlast.bodyErr # NoErr)
        => (tlast.id \notin DOMAIN basic /\ RowsOf(tlast.id) = {})

\* C2: a public operation whose database operation returned an error returns
\* that same error to its caller.
C2_FaultSurfaced ==
    /\ tlast.bodyErr # NoErr => tlast.err = tlast.bodyErr
    /\ clast.bodyErr # NoErr => clast.err = clast.bodyErr

\* C3: an access-index row and a refresh-index row of the same grant: the
\* expiry of the access row is not later than the expiry of the refresh row.
C3_AccessExpiryNotAfterRefresh ==
    \A a \in DOMAIN access, r \in DOMAIN refresh :
        access[a].BasicID = refresh[r].BasicID
            => access[a].ExpiredAt <= refresh[r].ExpiredAt

\* C4: while no Remove has touched a grant, every index row its Create has
\* written refers to a basic payload that is stored, also while the Create
\* runs and after it failed.
C4_RowsReferToPayload ==
    \A g \in grants : RowsOf(g.id) # {} => g.id \in DOMAIN basic

\* GetByAccess or GetByRefresh returned.
LookupReturned == tlast.op \in {"GetByAccess", "GetByRefresh"}

\* The lookup that returned missed: getBasicID found no row of the token, or
\* getData found no payload under the basicID of the row.
Missed ==
    tlast.id = "" \/ tlast.id \notin DOMAIN tlast.pre.basic

\* The database and the session did not fail during the call.
NoTokenFault == tlast.bodyErr # StorageError /\ tlast.err # SessionError
NoClientFault == clast.bodyErr # StorageError /\ clast.err # SessionError

\* C5: GetByAccess and GetByRefresh return NotFound when the index row or the
\* payload it refers to is missing (the database and the session not failing).
C5_LookupMissFails ==
    (LookupReturned /\ Missed /\ NoTokenFault) => tlast.err = ErrNoDocuments

\* C6: GetByID of an id with no stored record returns NotFound (the database
\* and the session not failing).
C6_GetMissingClientFails ==
    (clast.op = "GetByID" /\ clast.id \notin DOMAIN clients /\ NoClientFault)
        => clast.err = ErrNoDocuments

\* C7: Set of an id that is stored returns DuplicateKey and leaves the stored
\* record as it was.
C7_SetDuplicateFails ==
    (clast.op = "Set" /\ clast.bodyErr = DuplicateKey)
        => /\ clast.err = DuplicateKey
           /\ clients[clast.id] = ClientEntity(cstored[clast.id])

\* C8: GetByID of an id whose record a Set inserted and no RemoveByID removed
\* returns, unless the database or the session fails, no error and the id,
\* secret, domain and userID handed to that Set.
C8_ClientRoundTrip ==
    (/\ clast.op = "GetByID"
     /\ clast.id \in DOMAIN cstored
     /\ NoClientFault)
        => (clast.err = NoErr /\ clast.bodyErr = NoErr /\ clast.val = cstored[clast.id])

C8_Witness ==
    /\ clast.op = "GetByID"
    /\ clast.id \in DOMAIN cstored
    /\ clast.err = NoErr
    /\ clast.val = cstored[clast.id]
    /\ clast.val.Domain = "d2" /\ clast.val.UserID = "u1"

\* The grants that were stored and untouched when the lookup that returned
\* was called and that no Remove touched while it ran.
LiveThroughout(cname) == tlast.live \cap Live(cname, tlast.arg)

GetReturned(op, cname) ==
    (/\ tlast.op = op
     /\ LiveThroughout(cname) # {}
     /\ NoTokenFault)
        => \A g \in LiveThroughout(cname) :
              tlast.err = NoErr /\ tlast.bodyErr = NoErr /\ tlast.val = g.info

\* C9: a GetByAccess of the access token and a GetByRefresh of the refresh
\* token of a grant, called after the Create that inserted every record of
\* the grant and running before any Remove touches it, return, unless the
\* database or the session fails, no error and the token info handed to that
\* Create.
C9_AccessRefreshSamePayload ==
    GetReturned("GetByAccess", AccessCName) /\ GetReturned("GetByRefresh", RefreshCName)

C9_Witness ==
    /\ tlast.op = "GetByRefresh"
    /\ tlast.err = NoErr
    /\ \E g \in LiveThroughout(RefreshCName) :
          /\ tlast.val = g.info
          /\ tlast.id = g.id
          /\ g.info.Access \in DOMAIN access
          /\ Unmarshal(basic[access[g.info.Access].BasicID].Data) = tlast.val

\* Collection after differs from before by at most the document keyed id.
AtMostDeleted(before, after, id) ==
    /\ DOMAIN before \ {id} \subseteq DOMAIN after
    /\ DOMAIN after \subseteq DOMAIN before
    /\ \A k \in DOMAIN after : after[k] = before[k]

\* C10: RemoveByAccess deletes at most the access row keyed by the token and
\* leaves the refresh and basic collections unchanged; RemoveByRefresh changes
\* only the refresh collection and RemoveByCode only the basic collection.
\* GetByRefresh changes no collection and, unless the database or the session
\* fails, returns the payload stored under the basicID it read from the
\* refresh row, whether or not an access row refers to that payload.
C10_RemoveDoesNotCascade ==
    /\ tlast.op = "RemoveByAccess"
          => /\ AtMostDeleted(tlast.pre.access, access, tlast.arg)
             /\ basic = tlast.pre.basic /\ refresh = tlast.pre.refresh
    /\ tlast.op = "RemoveByRefresh"
          => /\ AtMostDeleted(tlast.pre.refresh, refresh, tlast.arg)
             /\ basic = tlast.pre.basic /\ access = tlast.pre.access
    /\ tlast.op = "RemoveByCode"
          => /\ AtMostDeleted(tlast.pre.basic, basic, tlast.arg)
             /\ access = tlast.pre.access /\ refresh = tlast.pre.refresh
    /\ tlast.op = "GetByRefresh"
          => /\ basic = tlast.pre.basic
             /\ access = tlast.pre.access /\ refresh = tlast.pre.refresh
    /\ (tlast.op = "GetByRefresh" /\ ~Missed /\ NoTokenFault)
          => /\ tlast.err = NoErr
             /\ tlast.val = Unmarshal(basic[tlast.id].Data)

\* GetByRefresh returns the payload of a grant whose access row is removed.
C10_Witness ==
    /\ tlast.op = "GetByRefresh"
    /\ tlast.err = NoErr
    /\ tlast.val.Refresh = tlast.arg
    /\ tlast.val.Access \notin DOMAIN access
    /\ tlast.arg \in DOMAIN refresh
    /\ refresh[tlast.arg].BasicID = tlast.id
    /\ tlast.id \in DOMAIN basic
    /\ \A g \in grants : g.id # refresh[tlast.arg].BasicID

\* The code grants whose Create inserted their record, no RemoveByCode of the
\* code since.
StoredCodes(code) ==
    {g \in grants : g.info.Code # "" /\ g.id = code /\ g.done = "ok"}

\* C11: GetByCode of the code of a grant that a Create stored (the code not
\* stored before) and no RemoveByCode removed returns, unless the database or
\* the session fails, no error and a token info whose fields equal those
\* handed to that Create.
C11_CodeRoundTrip ==
    (/\ tlast.op = "GetByCode"
     /\ StoredCodes(tlast.arg) # {}
     /\ NoTokenFault)
        => \A g \in StoredCodes(tlast.arg) :
              tlast.err = NoErr /\ tlast.bodyErr = NoErr /\ tlast.val = g.info

\* GetByCode returned the code grant that also carries tokens.
C11_Witness ==
    /\ tlast.op = "GetByCode"
    /\ tlast.err = NoErr
    /\ tlast.arg = "k1"
    /\ tlast.val \in CodeInfos
    /\ tlast.val.CodeExpiresIn = 20
    /\ tlast.val.Access = "a1"
    /\ \E g \in StoredCodes("k1") : g.info = tlast.val

\* Collection after is collection before and one new document, keyed id.
OneAdded(before, after, id) ==
    /\ id \notin DOMAIN before
    /\ DOMAIN after = DOMAIN before \cup {id}
    /\ \A k \in DOMAIN before : after[k] = before[k]

\* A Create of a grant with a code returned and its insert had succeeded.
CodeCreated ==
    /\ tlast.op = "Create" /\ tlast.id = ""
    /\ tlast.err = NoErr /\ tlast.bodyErr = NoErr

\* C12: a successful Create of a grant with a non-empty code, whether or not
\* the grant also carries an access or a refresh token, adds exactly one record
\* to the basic collection, keyed by the code and expiring at codeCreateAt +
\* codeExpiresIn, and leaves the access and refresh collections unchanged.
C12_CodeCreateOnlyBasic ==
    CodeCreated
        => /\ OneAdded(tlast.pre.basic, basic, tlast.arg)
           /\ \E g \in StoredCodes(tlast.arg) :
                 /\ basic[tlast.arg].Data = Marshal(g.info)
                 /\ basic[tlast.arg].ExpiredAt = g.info.CodeCreateAt + g.info.CodeExpiresIn
           /\ access = tlast.pre.access
           /\ refresh = tlast.pre.refresh

\* The Create of a code grant that carries tokens returned, an access row of
\* another grant being stored.
C12_Witness ==
    /\ CodeCreated
    /\ tlast.arg = "k1"
    /\ Unmarshal(basic["k1"].Data).Access = "a1"
    /\ Unmarshal(basic["k1"].Data).Refresh = "r1"
    /\ basic["k1"].ExpiredAt = 140
    /\ "a1" \in DOMAIN access
    /\ refresh = Empty

\* GetByAccess or GetByRefresh returned without error.
TokenLookupReturned ==
    tlast.op \in {"GetByAccess", "GetByRefresh"} /\ tlast.err = NoErr

\* The token info a Create of a code-only grant stored.
CodeOnly(info) ==
    info.Code \in Codes /\ info.Access = "" /\ info.Refresh = ""

\* C13: after the Create of a grant that carries a code alone, no GetByAccess
\* and no GetByRefresh, of whatever token, returns the token info of that
\* grant.
C13_CodeGrantNotViaTokens ==
    TokenLookupReturned => ~CodeOnly(tlast.val)

\* C14: RemoveByID deletes at most the record of its id and changes no record
\* of another id; of an id with no record it leaves the collection as it was
\* and, unless the database or the session fails, reports no error; a second
\* RemoveByID of the same id changes nothing and returns what the first did.
C14_RemoveByIDIdempotent ==
    [][clast'.op = "RemoveByID"
          => LET sound == clast'.bodyErr # StorageError /\ clast'.err # SessionError
             IN  /\ AtMostDeleted(clients, clients', clast'.id)
                 /\ clast'.id \notin DOMAIN clients
                       => /\ clients' = clients
                          /\ sound => (clast'.err = NoErr /\ clast'.bodyErr = NoErr)
                 /\ (clast.op = "RemoveByID" /\ clast.id = clast'.id
                        /\ NoClientFault /\ sound)
                       => /\ clients' = clients
                          /\ clast'.err = clast.err
                          /\ clast'.bodyErr = clast.bodyErr]_vars

\* RemoveByID of an id with no record returned, a record of the other id
\* being stored.
C14_Witness ==
    /\ clast.op = "RemoveByID"
    /\ clast.err = NoErr /\ clast.bodyErr = NoErr
    /\ clast.id = "c1"
    /\ "c1" \notin DOMAIN clients
    /\ "c1" \notin DOMAIN cstored
    /\ "c2" \in DOMAIN clients

\* The access/refresh grants whose Create inserted every record, untouched by
\* a Remove.
StoredGrants == {g \in grants : g.done = "ok" /\ g.info.Code = ""}

\* Access token of 3600 s and refresh token of 7200 s, created at one instant.
HourAndTwo(info) ==
    /\ info.Refresh # ""
    /\ info.AccessCreateAt = info.RefreshCreateAt
    /\ info.AccessExpiresIn = 3600 /\ info.RefreshExpiresIn = 7200

\* C15: after a successful Create of an access/refresh grant the basic payload
\* expires at refreshCreateAt + refreshExpiresIn when the grant has a refresh
\* token and at accessCreateAt + accessExpiresIn when it has none, and the
\* refresh row expires at refreshCreateAt + refreshExpiresIn; with lifetimes of
\* 3600 s and 7200 s from one instant T the access row expires at T + 3600 and
\* the refresh row and the basic payload at T + 7200.
C15_ExpiryAssignment ==
    \A g \in StoredGrants :
        LET i == g.info
        IN  /\ g.id \in DOMAIN basic
            /\ basic[g.id].ExpiredAt =
                  IF i.Refresh # "" THEN i.RefreshCreateAt + i.RefreshExpiresIn
                  ELSE i.AccessCreateAt + i.AccessExpiresIn
            /\ i.Refresh # ""
                  => /\ i.Refresh \in DOMAIN refresh
                     /\ refresh[i.Refresh].ExpiredAt = i.RefreshCreateAt + i.RefreshExpiresIn
            /\ HourAndTwo(i)
                  => /\ access[i.Access].ExpiredAt = i.AccessCreateAt + 3600
                     /\ refresh[i.Refresh].ExpiredAt = i.AccessCreateAt + 7200
                     /\ basic[g.id].ExpiredAt = i.AccessCreateAt + 7200

\* A grant of 3600 s and 7200 s from instant 165 is stored.
C15_Witness ==
    \E g \in StoredGrants :
       /\ HourAndTwo(g.info) /\ g.info.AccessCreateAt = 165
       /\ access[g.info.Access].ExpiredAt = 3765
       /\ refresh[g.info.Refresh].ExpiredAt = 7365
       /\ basic[g.id].ExpiredAt = 7365

\* C16: the clamp only lowers: the access row of a stored grant never expires
\* later than accessCreateAt + accessExpiresIn, and when that instant is not
\* later than refreshCreateAt + refreshExpiresIn (or the grant has no refresh
\* token) the access row expires exactly then, never at the refresh expiry.
C16_ClampOnlyLowers ==
    \A g \in StoredGrants :
        LET i == g.info
            aexp == i.AccessCreateAt + i.AccessExpiresIn
            rexp == i.RefreshCreateAt + i.RefreshExpiresIn
            stored == access[i.Access].ExpiredAt
        IN  /\ stored <= aexp
            /\ (i.Refresh = "" \/ aexp <= rexp) => stored = aexp

\* The calls of log follow the protocol: each transaction is started, then
\* used by one or more database calls, none after a failed one, then committed
\* if no database call failed and aborted if one did; nothing lies outside a
\* transaction and the last transaction is ended.
Protocol(log) ==
    \A i \in 1..Len(log) :
        LET prev == IF i > 1 THEN log[i - 1] ELSE "nothing"
            next == IF i < Len(log) THEN log[i + 1] ELSE "nothing"
            ended == prev \in {"nothing", "CommitTransaction", "AbortTransaction"}
            begun == next \in {"nothing", TxnStarts}
        IN  IF log[i] = TxnStarts THEN ended /\ next \in {"op", "op failed"}
            ELSE IF log[i] = "op"
                THEN /\ prev \in {TxnStarts, "op"}
                     /\ next \in {"op", "op failed", "CommitTransaction"}
            ELSE IF log[i] = "op failed"
                THEN prev \in {TxnStarts, "op"} /\ next = "AbortTransaction"
            ELSE IF log[i] = "CommitTransaction" THEN prev = "op" /\ begun
            ELSE IF log[i] = "AbortTransaction" THEN prev = "op failed" /\ begun
            ELSE FALSE

\* C17: every operation of TokenStore and of ClientStore that ran a database
\* call started a transaction before it and ended that transaction before
\* returning, by CommitTransaction exactly when no database call of the body
\* failed and by AbortTransaction exactly when one failed; a Create in flight
\* has made its database calls after StartTransaction.
C17_TransactionProtocol ==
    /\ Protocol(tlast.log)
    /\ Protocol(clast.log)
    /\ (tlast.op # NilTokenCall /\ tlast.log = << >>) => tlast.err = SessionError
    /\ (clast.op # "none" /\ clast.log = << >>) => clast.err = SessionError
    /\ tlast.bodyErr # NoErr => \E i \in 1..Len(tlast.log) : tlast.log[i] = "AbortTransaction"
    /\ clast.bodyErr # NoErr => \E i \in 1..Len(clast.log) : clast.log[i] = "AbortTransaction"
    /\ \A c \in cr :
          /\ c.log[1] = TxnStarts
          /\ \A i \in 2..Len(c.log) : c.log[i] = "op"
          /\ Len(c.log) = 1 + Cardinality(PayloadKeys(c.info) \ c.pending)

\* Set returned after its transaction was aborted on a duplicate key, while
\* a Create has made its first insert and two to go.
C17_Witness ==
    /\ clast.op = "Set"
    /\ clast.log = <<TxnStarts, "op failed", "AbortTransaction">>
    /\ clast.bodyErr = DuplicateKey
    /\ \E c \in cr : c.log = <<TxnStarts, "op">> /\ Cardinality(c.pending) = 2

\* The index rows, in the collections acc and ref, that refer to basic key id.
RowsIn(acc, ref, id) ==
    {<<AccessCName, k>> : k \in {x \in DOMAIN acc : acc[x].BasicID = id}}
    \cup {<<RefreshCName, k>> : k \in {x \in DOMAIN ref : ref[x].BasicID = id}}

\* The index rows of a stored grant of info.
RowsExpected(info) ==
    {<<AccessCName, info.Access>>}
    \cup (IF info.Refresh # "" THEN {<<RefreshCName, info.Refresh>>} ELSE {})

\* C18: a Create of an access/refresh grant adds, with each insert that
\* succeeds, exactly one document to exactly one collection: the basic
\* payload under the generated key, which was not in the basic collection, or
\* an index row keyed by the access or the refresh token whose basicID is
\* that key; a failed insert adds nothing.  When the Create returns with
\* every insert succeeded then, unless a Remove touched the grant meanwhile,
\* its payload is stored and the rows that refer to it are one access row
\* keyed by the access token and a refresh row exactly when the refresh token
\* is not empty.
C18_StoredGrantShape ==
    [][\A c \in cr \ cr' :
             LET info == c.info
                 id == c.id
                 goesOn == \E x \in cr' : x.id = id
                 left == IF goesOn THEN (CHOOSE x \in cr' : x.id = id).pending ELSE {}
                 failed == ~goesOn /\ tlast'.bodyErr # NoErr
                 key == CHOOSE k \in c.pending : k \notin left
             IN  IF failed
                   THEN basic' = basic /\ access' = access /\ refresh' = refresh
                   ELSE /\ Cardinality(c.pending \ left) = 1
                        /\ IF key = BasicCName
                              THEN /\ OneAdded(basic, basic', id)
                                   /\ basic'[id].Data = Marshal(info)
                              ELSE basic' = basic
                        /\ IF key = AccessCName
                              THEN /\ OneAdded(access, access', info.Access)
                                   /\ access'[info.Access].BasicID = id
                              ELSE access' = access
                        /\ IF key = RefreshCName
                              THEN /\ info.Refresh # ""
                                   /\ OneAdded(refresh, refresh', info.Refresh)
                                   /\ refresh'[info.Refresh].BasicID = id
                              ELSE refresh' = refresh
                        /\ (\E g \in grants' : g.id = id /\ g.info = info /\ g.done = "ok")
                              => /\ id \in DOMAIN basic'
                                 /\ basic'[id].Data = Marshal(info)
                                 /\ RowsIn(access', refresh', id) = RowsExpected(info)]_vars

\* The Create of a second grant, without refresh token, returned with every
\* insert succeeded; the refresh row of the first grant is still stored.
C18_Witness ==
    /\ tlast.op = "Create" /\ tlast.id = "oid2"
    /\ tlast.err = NoErr /\ tlast.bodyErr = NoErr
    /\ "oid2" \in DOMAIN basic
    /\ Unmarshal(basic["oid2"].Data).Refresh = ""
    /\ RowsOf("oid2") = {<<AccessCName, "a1">>}
    /\ RowsOf("oid1") = {<<RefreshCName, "r1">>}

\* The token info of an access/refresh grant: no code, an access token.
OfTokenGrant(info) == info.Code = "" /\ info.Access # ""

\* The index rows, in the collections acc and ref, that refer to a payload
\* stored in bas.
Resolving(acc, ref, bas) ==
    {<<AccessCName, k>> : k \in {x \in DOMAIN acc : acc[x].BasicID \in DOMAIN bas}}
    \cup {<<RefreshCName, k>> : k \in {x \in DOMAIN ref : ref[x].BasicID \in DOMAIN bas}}

\* C19: the payload of an access/refresh grant is out of reach of the code
\* operations, whatever string the caller passes as code: GetByCode never
\* returns such a payload, RemoveByCode never deletes one, and a Create of a
\* code grant never makes an index row resolve to a payload it did not
\* resolve to before.
C19_KeySpacesSeparate ==
    /\ (tlast.op = "GetByCode" /\ tlast.err = NoErr) => ~OfTokenGrant(tlast.val)
    /\ tlast.op = "RemoveByCode"
          => \A k \in DOMAIN tlast.pre.basic :
                OfTokenGrant(Unmarshal(tlast.pre.basic[k].Data)) => k \in DOMAIN basic
    /\ (tlast.op = "Create" /\ tlast.id = "")
          => Resolving(access, refresh, basic)
                = Resolving(tlast.pre.access, tlast.pre.refresh, tlast.pre.basic)

====
